---- MODULE Spec2Model ----
(***************************************************************************)
(* Model of client/src/context/AuthContext.jsx: the AuthProvider session   *)
(* state (user, loading, token), the token effect that mirrors the token   *)
(* onto axios.defaults.headers.common['Authorization'] and                 *)
(* localStorage['token'], and the operations checkAuth, login, register,   *)
(* logout and handleOAuthSuccess.                                          *)
(*                                                                         *)
(* React semantics the component relies on (React 18, createRoot):         *)
(*  - a setState call made from an async continuation is queued; the       *)
(*    queued updates of one or more continuations are committed together   *)
(*    by a later render (automatic batching, last write per hook wins);    *)
(*  - a useEffect with deps [token] runs after a commit in which token     *)
(*    changed (Object.is), and pending passive effects are flushed before  *)
(*    the next render starts;                                              *)
(*  - the mount effects run in declaration order in one flush.             *)
(* Each await of an axios call is a suspension point: the request is a     *)
(* message in flight and its continuation is one atomic step.              *)
(***************************************************************************)
EXTENDS Integers, Sequences, FiniteSets, TLC

VARIABLES
    user,        \* useState(null)                        (line 39), committed value
    loading,     \* useState(true)                        (line 40), committed value
    token,       \* useState(localStorage.getItem('token')) (line 41), committed value
    pend,        \* queued setUser/setToken/setLoading updates not yet rendered
    effPending,  \* the [token] effect of the last commit has not run yet
    header,      \* axios.defaults.headers.common['Authorization']
    stored,      \* localStorage['token']
    inflight,    \* number of pending axios requests per endpoint
    mounted,     \* the mount effects (lines 44-57) have run
    ops,         \* number of operations the consumer has invoked
    last,        \* history: the last operation-level step (start or completion)
    stored0,     \* history: localStorage['token'] at construction
    restore,     \* history: outcome of the mount-time checkAuth
    requested,   \* history: some axios request has been issued
    wellFormed,  \* history: every resolved login/register body so far had user and token
    snap,        \* history: session observed when a second logout in succession starts
    restoreAuth  \* history: Authorization header the mount-time GET /auth/me was sent with

vars == <<user, loading, token, pend, effPending, header, stored, inflight,
          mounted, ops, last, stored0, restore, requested, wellFormed, snap,
          restoreAuth>>

session == <<user, loading, token, pend, effPending, header, stored>>

(***************************************************************************)
(* Bounds and value domains                                                *)
(***************************************************************************)
MaxOps == 2

Null   == "<null>"        \* JavaScript null
Undef  == "<undefined>"   \* JavaScript undefined
Absent == "<absent>"      \* key not present (header object / localStorage)
Unsent == "<unsent>"      \* no mount-time request has been sent

Tokens == {"t1", "t2"}
Users  == {"u1", "u2"}
Errors == {"Invalid credentials"}

\* "bgLogout" is the POST /auth/logout of the logout() that checkAuth calls
\* without awaiting it (line 70); "logout" the one of a logout() of the consumer
Kinds  == {"me", "login", "register", "logout", "bgLogout"}

\* JavaScript truthiness of the values that occur here
Truthy(v) == v \notin {Null, Undef, ""}

\* localStorage.getItem('token')
getItem(s) == IF s = Absent THEN Null ELSE s

\* An optional queued update: <<>> (none) or <<v>>
None == <<>>
Some(v) == <<v>>
Apply(cur, upd) == IF upd = None THEN cur ELSE upd[1]
NoPend == [user |-> None, token |-> None, loading |-> None]

(***************************************************************************)
(* Responses of the remote service as axios delivers them.                 *)
(* ok: the promise resolved (2xx); body: response.data is an object;       *)
(* error: error.response?.data?.error of a rejection (Undef when the       *)
(* rejection carries no payload, e.g. a transport error).                  *)
(***************************************************************************)
Resolved(u, t) == [ok |-> TRUE, body |-> TRUE, user |-> u, token |-> t, error |-> Undef]
NoBody         == [ok |-> TRUE, body |-> FALSE, user |-> Undef, token |-> Undef, error |-> Undef]
Rejected(e)    == [ok |-> FALSE, body |-> FALSE, user |-> Undef, token |-> Undef, error |-> e]

AuthResponses ==
    {Resolved(u, t) : u \in Users \cup {Undef}, t \in Tokens \cup {Undef}}
        \cup {NoBody}
        \cup {Rejected(e) : e \in Errors \cup {Undef, ""}}

MeResponses ==
    {Resolved(u, Undef) : u \in Users \cup {Undef}}
        \cup {NoBody}
        \cup {Rejected(Undef)}

LogoutResponses == {Resolved(Undef, Undef), Rejected(Undef)}

\* What an operation's promise settles to
NoResult   == [kind |-> "none", success |-> FALSE, user |-> Undef, error |-> Undef]
Void       == [kind |-> "undefined", success |-> FALSE, user |-> Undef, error |-> Undef]
Success(u) == [kind |-> "object", success |-> TRUE, user |-> u, error |-> Undef]
Failure(e) == [kind |-> "object", success |-> FALSE, user |-> Undef, error |-> e]

Event(op, phase, resp, result) ==
    [op |-> op, phase |-> phase, resp |-> resp, result |-> result]
NoResp == Rejected(Undef)

(***************************************************************************)
(* The token effect, lines 44-52                                           *)
(***************************************************************************)
\* Mutant: the header is set to the bare token, without the 'Bearer ' prefix
EffectHeader_Raw(tok) == IF Truthy(tok) THEN tok ELSE Absent

EffectHeader(tok) == IF Truthy(tok) THEN "Bearer " \o tok ELSE Absent
EffectStored(tok) == IF Truthy(tok) THEN tok ELSE Absent

Init ==
    /\ stored0 \in Tokens \cup {Absent}
    /\ stored = stored0
    /\ user = Null
    /\ loading = TRUE
    /\ token = getItem(stored0)
    /\ pend = NoPend
    /\ effPending = TRUE
    /\ header = Absent
    /\ inflight = [k \in Kinds |-> 0]
    /\ mounted = FALSE
    /\ ops = 0
    /\ last = Event("none", "done", NoResp, NoResult)
    /\ restore = "none"
    /\ requested = FALSE
    /\ wellFormed = TRUE
    /\ snap = <<>>
    /\ restoreAuth = Unsent

Idle == \A k \in Kinds : inflight[k] = 0
Quiescent == mounted /\ Idle /\ pend = NoPend /\ ~effPending

Issue(k) ==
    /\ inflight' = [inflight EXCEPT ![k] = @ + 1]
    /\ requested' = TRUE

Settle(k) == inflight' = [inflight EXCEPT ![k] = @ - 1]

(***************************************************************************)
(* checkAuth, lines 59-74.  checkAuthCall is the part that runs until the  *)
(* await of line 66, with the token its closure holds.                     *)
(***************************************************************************)
\* Mutant: the early return of lines 61-64 is missing
checkAuthCall_NoEarlyReturn(tok) ==
    /\ Issue("me")
    /\ UNCHANGED pend

\* Mutant: checkAuth shows the spinner again while it asks the server
checkAuthCall_SetLoading(tok) ==
    IF ~Truthy(tok)
    THEN /\ pend' = [pend EXCEPT !.loading = Some(FALSE)]
         /\ UNCHANGED <<inflight, requested>>
    ELSE /\ Issue("me")
         /\ pend' = [pend EXCEPT !.loading = Some(TRUE)]

checkAuthCall(tok) ==
    IF ~Truthy(tok)
    THEN /\ pend' = [pend EXCEPT !.loading = Some(FALSE)]
         /\ UNCHANGED <<inflight, requested>>
    ELSE /\ Issue("me")
         /\ UNCHANGED pend

\* line 67 does not throw: the request resolved and response.data is an object
checkAuthOk(resp) == resp.ok /\ resp.body

\* Mutant: the catch of lines 68-70 logs the error and does not call logout()
checkAuthSettle_NoLogout(resp) ==
    /\ pend' = IF checkAuthOk(resp)
               THEN [pend EXCEPT !.user = Some(resp.user), !.loading = Some(FALSE)]
               ELSE [pend EXCEPT !.loading = Some(FALSE)]
    /\ inflight' = [inflight EXCEPT !["me"] = @ - 1]

\* lines 67-73, the continuation after the await of line 66.  A failure calls
\* logout() without awaiting it: logout runs to its own await (line 115), and
\* the finally of line 72 follows at once.
checkAuthSettle(resp) ==
    IF checkAuthOk(resp)
    THEN /\ pend' = [pend EXCEPT !.user = Some(resp.user), !.loading = Some(FALSE)]
         /\ inflight' = [inflight EXCEPT !["me"] = @ - 1]
    ELSE /\ pend' = [pend EXCEPT !.loading = Some(FALSE)]
         /\ inflight' = [inflight EXCEPT !["me"] = @ - 1, !["bgLogout"] = @ + 1]

\* Mutant: the effect calling checkAuth is declared before the token effect
MountRequestHeader_Before == header

\* The header axios reads when the checkAuth of the mount effect (line 56) sends
\* its request: the effects run in declaration order, the token effect first
MountRequestHeader == header'

\* The mount effects, lines 44-57: the token effect, then checkAuth()
Mount ==
    /\ ~mounted
    /\ mounted' = TRUE
    /\ header' = EffectHeader(token)
    /\ stored' = EffectStored(token)
    /\ effPending' = FALSE
    /\ checkAuthCall(token)
    /\ restore' = IF Truthy(token) THEN "pending" ELSE "skipped"
    /\ last' = IF Truthy(token)
               THEN Event("checkAuth", "start", NoResp, NoResult)
               ELSE Event("checkAuth", "done", NoResp, Void)
    /\ snap' = <<>>
    /\ restoreAuth' = IF Truthy(token) THEN MountRequestHeader ELSE Unsent
    /\ UNCHANGED <<user, loading, token, ops, stored0, wellFormed>>

\* The token effect of a later commit, lines 44-52
TokenEffect ==
    /\ mounted
    /\ effPending
    /\ header' = EffectHeader(token)
    /\ stored' = EffectStored(token)
    /\ effPending' = FALSE
    /\ UNCHANGED <<user, loading, token, pend, inflight, mounted, ops, last,
                   stored0, restore, requested, wellFormed, snap,
                   restoreAuth>>

\* A render commits the queued updates (lines 39-41); a pending token effect
\* is flushed first, and the effect is scheduled again when token changed.
Render ==
    /\ mounted
    /\ pend # NoPend
    /\ header' = IF effPending THEN EffectHeader(token) ELSE header
    /\ stored' = IF effPending THEN EffectStored(token) ELSE stored
    /\ user' = Apply(user, pend.user)
    /\ token' = Apply(token, pend.token)
    /\ loading' = Apply(loading, pend.loading)
    /\ effPending' = (token' # token)
    /\ pend' = NoPend
    /\ UNCHANGED <<inflight, mounted, ops, last, stored0, restore, requested,
                   wellFormed, snap,
                   restoreAuth>>

\* checkAuth() invoked through the context value (line 138)
checkAuth ==
    /\ mounted
    /\ ops < MaxOps
    /\ ops' = ops + 1
    /\ checkAuthCall(token)
    /\ last' = IF Truthy(token)
               THEN Event("checkAuth", "start", NoResp, NoResult)
               ELSE Event("checkAuth", "done", NoResp, Void)
    /\ snap' = <<>>
    /\ UNCHANGED <<user, loading, token, effPending, header, stored, mounted,
                   stored0, restore, wellFormed,
                   restoreAuth>>

\* GET /auth/me settles; atMount tells the mount-time request from a later one
checkAuthResolve ==
    \E resp \in MeResponses, atMount \in BOOLEAN :
        /\ inflight["me"] > 0
        /\ atMount => restore = "pending"
        /\ ~atMount => inflight["me"] > (IF restore = "pending" THEN 1 ELSE 0)
        /\ checkAuthSettle(resp)
        /\ UNCHANGED requested
        /\ restore' = IF ~atMount THEN restore
                      ELSE IF ~resp.ok THEN "rejected"
                      ELSE IF ~resp.body THEN "nobody"
                      ELSE IF Truthy(resp.user) THEN "ok" ELSE "nouser"
        /\ last' = Event("checkAuth", "done", resp, Void)
        /\ snap' = <<>>
        /\ UNCHANGED <<user, loading, token, effPending, header, stored, mounted,
                       ops, stored0, wellFormed,
                   restoreAuth>>

(***************************************************************************)
(* login, lines 76-92, and register, lines 94-111                          *)
(***************************************************************************)
DefaultMessage(k) == IF k = "login" THEN "Login failed" ELSE "Registration failed"

\* Mutant: the message has no default (error.response?.data?.error alone)
Message_NoDefault(k, resp) == resp.error

\* lines 89/108: error.response?.data?.error || default
Message(k, resp) ==
    IF ~resp.ok /\ Truthy(resp.error) THEN resp.error ELSE DefaultMessage(k)

\* lines 83/102 do not throw
authOk(resp) == resp.ok /\ resp.body

\* lines 84-85 / 103-104
authUpdates(resp) == [pend EXCEPT !.user = Some(resp.user), !.token = Some(resp.token)]

\* lines 87, 90 / 106, 109
authResult(k, resp) ==
    IF authOk(resp) THEN Success(resp.user) ELSE Failure(Message(k, resp))

authCall(k) ==
    /\ mounted
    /\ ops < MaxOps
    /\ ops' = ops + 1
    /\ Issue(k)
    /\ last' = Event(k, "start", NoResp, NoResult)
    /\ snap' = <<>>
    /\ UNCHANGED <<user, loading, token, pend, effPending, header, stored,
                   mounted, stored0, restore, wellFormed,
                   restoreAuth>>

authResolve(k) ==
    \E resp \in AuthResponses :
        /\ inflight[k] > 0
        /\ Settle(k)
        /\ pend' = IF authOk(resp) THEN authUpdates(resp) ELSE pend
        /\ last' = Event(k, "done", resp, authResult(k, resp))
        /\ wellFormed' = (wellFormed /\
                            (resp.ok => resp.body /\ Truthy(resp.user) /\ Truthy(resp.token)))
        /\ snap' = <<>>
        /\ UNCHANGED <<user, loading, token, effPending, header, stored, mounted,
                       ops, stored0, restore, requested,
                   restoreAuth>>

login == authCall("login")
loginResolve == authResolve("login")
register == authCall("register")

\* Mutant: register's success path sets the user and forgets setToken(token)
registerResolve_NoToken ==
    \E resp \in AuthResponses :
        /\ inflight["register"] > 0
        /\ Settle("register")
        /\ pend' = IF authOk(resp) THEN [pend EXCEPT !.user = Some(resp.user)] ELSE pend
        /\ last' = Event("register", "done", resp, authResult("register", resp))
        /\ wellFormed' = (wellFormed /\
                            (resp.ok => resp.body /\ Truthy(resp.user) /\ Truthy(resp.token)))
        /\ snap' = <<>>
        /\ UNCHANGED <<user, loading, token, effPending, header, stored, mounted,
                       ops, stored0, restore, requested, restoreAuth>>

registerResolve == authResolve("register")

(***************************************************************************)
(* logout, lines 113-123                                                   *)
(***************************************************************************)
\* Mutant: the finally of logout forgets setToken(null)
logoutUpdates_KeepToken == [pend EXCEPT !.user = Some(Null)]

\* lines 119-120
logoutUpdates == [pend EXCEPT !.user = Some(Null), !.token = Some(Null)]

\* Mutant: localStorage.setItem('token', null), which stores the string 'null'
logoutStored_SetNull == "null"

\* line 121
logoutStored == Absent

\* Mutant: logout clears the session first and calls the server afterwards
logout_Eager ==
    /\ mounted
    /\ ops < MaxOps
    /\ ops' = ops + 1
    /\ Issue("logout")
    /\ pend' = logoutUpdates
    /\ stored' = logoutStored
    /\ snap' = <<>>
    /\ last' = Event("logout", "start", NoResp, NoResult)
    /\ UNCHANGED <<user, loading, token, effPending, header, mounted, stored0,
                   restore, wellFormed, restoreAuth>>

logout ==
    /\ mounted
    /\ ops < MaxOps
    /\ ops' = ops + 1
    /\ Issue("logout")
    /\ snap' = IF last.op = "logout" /\ last.phase = "done" /\ Quiescent
               THEN <<user, loading, token, header, stored>>
               ELSE <<>>
    /\ last' = Event("logout", "start", NoResp, NoResult)
    /\ UNCHANGED <<user, loading, token, pend, effPending, header, stored,
                   mounted, stored0, restore, wellFormed,
                   restoreAuth>>

logoutResolve ==
    \E resp \in LogoutResponses, k \in {"logout", "bgLogout"} :
        /\ inflight[k] > 0
        /\ Settle(k)
        /\ pend' = logoutUpdates
        /\ stored' = logoutStored
        /\ last' = Event("logout", "done", resp, Void)
        /\ UNCHANGED <<user, loading, token, effPending, header, mounted, ops,
                       stored0, restore, requested, wellFormed, snap,
                   restoreAuth>>

(***************************************************************************)
(* handleOAuthSuccess, lines 125-128                                       *)
(***************************************************************************)
\* The caller hands over a token and a profile it has already validated.
handleOAuthSuccess ==
    \E t \in Tokens, u \in Users :
        /\ mounted
        /\ ops < MaxOps
        /\ ops' = ops + 1
        /\ pend' = [pend EXCEPT !.token = Some(t), !.user = Some(u)]
        /\ last' = Event("oauth", "done", Resolved(u, t), Void)
        /\ snap' = <<>>
        /\ UNCHANGED <<user, loading, token, effPending, header, stored, inflight,
                       mounted, stored0, restore, requested, wellFormed,
                   restoreAuth>>

Next ==
    \/ Mount
    \/ TokenEffect
    \/ Render
    \/ checkAuth
    \/ checkAuthResolve
    \/ login
    \/ loginResolve
    \/ register
    \/ registerResolve
    \/ logout
    \/ logoutResolve
    \/ handleOAuthSuccess

Spec == Init /\ [][Next]_vars

\* Every issued request is eventually answered, every queued update is
\* eventually rendered and every scheduled effect eventually runs; the
\* consumer is free never to act.
Fairness ==
    /\ WF_vars(Mount)
    /\ WF_vars(TokenEffect)
    /\ WF_vars(Render)
    /\ WF_vars(checkAuthResolve)
    /\ WF_vars(loginResolve)
    /\ WF_vars(registerResolve)
    /\ WF_vars(logoutResolve)

LiveSpec == Init /\ [][Next]_vars /\ Fairness

(***************************************************************************)
(* A consumer that serializes its calls: it invokes a member of the        *)
(* context value (lines 130-139) only when the rendered loading is false   *)
(* and every promise it was handed has resolved.  The logout that          *)
(* checkAuth's catch starts at line 70 is not awaited, so no promise the   *)
(* consumer holds tells that it is pending.                                *)
(***************************************************************************)
ConsumerPending ==
    inflight["login"] + inflight["register"] + inflight["logout"]
        + (inflight["me"] - (IF restore = "pending" THEN 1 ELSE 0))

CanStart == loading = FALSE /\ ConsumerPending = 0

SerialNext ==
    \/ Mount
    \/ TokenEffect
    \/ Render
    \/ (CanStart /\ checkAuth)
    \/ checkAuthResolve
    \/ (CanStart /\ login)
    \/ loginResolve
    \/ (CanStart /\ register)
    \/ registerResolve
    \/ (CanStart /\ logout)
    \/ logoutResolve
    \/ (CanStart /\ handleOAuthSuccess)

SerialSpec == Init /\ [][SerialNext]_vars

(***************************************************************************)
(* Properties                                                              *)
(***************************************************************************)
Settled == pend = NoPend /\ ~effPending
Bearer(t) == "Bearer " \o t
LoginOk == /\ last.op = "login" /\ last.phase = "done"
           /\ last.resp.ok /\ last.resp.body
           /\ Truthy(last.resp.user) /\ Truthy(last.resp.token)

\* C1: after a login whose response body is {user, token}, once the queued
\* updates are rendered and the token effect has run, user and token are the
\* response's, the Authorization header is 'Bearer <token>', localStorage
\* holds the token, and the result is {success: true, user}.
C1_LoginSuccess ==
    LoginOk =>
        /\ last.result = Success(last.resp.user)
        /\ Settled =>
              /\ user = last.resp.user
              /\ token = last.resp.token
              /\ header = Bearer(last.resp.token)
              /\ stored = last.resp.token

\* C2: a login whose request is rejected queues no update and touches neither
\* the header nor localStorage, in the call (lines 77-81) as in the catch
\* (lines 88-90); its promise resolves to {success: false, error} with error
\* the payload's error when there is one and 'Login failed' otherwise.
C2_LoginFailure ==
    [][ /\ inflight'["login"] > inflight["login"] => UNCHANGED session
        /\ (inflight'["login"] < inflight["login"] /\ ~last'.resp.ok) =>
              /\ UNCHANGED session
              /\ last'.result.kind = "object"
              /\ ~last'.result.success
              /\ last'.result.error \notin {"", Null, Undef}
              /\ last'.result.error =
                    (IF last'.resp.error \in Errors
                     THEN last'.resp.error ELSE "Login failed") ]_vars

C2_Witness ==
    /\ last.op = "login" /\ last.phase = "done"
    /\ last.resp = Rejected("Invalid credentials")
    /\ last.result = Failure("Invalid credentials")
    /\ Truthy(token) /\ Truthy(user) /\ Settled

Anonymous ==
    /\ token = Null /\ user = Null /\ loading = FALSE
    /\ header = Absent /\ stored = Absent

RestoreFailed == restore \in {"rejected", "nobody"}

\* C3: when the mount-time GET /auth/me of a persisted token fails, and the
\* consumer invokes nothing, the session eventually is anonymous: token and
\* user null, loading false, no Authorization header, no stored token.
\* The promise of checkAuth resolves (to undefined) whatever the response was.
C3_RestoreRejected ==
    /\ [](last.op = "checkAuth" /\ last.phase = "done" => last.result = Void)
    /\ (RestoreFailed /\ ops = 0) ~> (ops > 0 \/ (Anonymous /\ Settled))

C3_Witness == RestoreFailed /\ ops = 0 /\ Anonymous /\ Settled /\ Idle

Restored ==
    /\ token = stored0 /\ user = last.resp.user /\ loading = FALSE
    /\ header = Bearer(stored0) /\ stored = stored0

\* C4: when the mount-time GET /auth/me of a persisted token t resolves with
\* {user: u}, and the consumer invokes nothing, the session eventually has
\* token t, user u, loading false, header 'Bearer t' and t still stored.
C4_RestoreAccepted ==
    (restore = "ok" /\ ops = 0) ~> (ops > 0 \/ (Restored /\ Settled))

C4_Witness == restore = "ok" /\ ops = 0 /\ Restored /\ Settled /\ Idle

\* C5: constructed with no stored token, and until the consumer invokes
\* something, no request is ever issued, token and user stay null, no header
\* is attached, and loading is false once the mount effects' update is rendered.
C5_NoStoredToken ==
    (stored0 = Absent /\ ops = 0) =>
        /\ ~requested /\ Idle
        /\ token = Null /\ user = Null
        /\ header = Absent /\ stored = Absent
        /\ (mounted /\ pend = NoPend) => loading = FALSE

C5_Witness ==
    stored0 = Absent /\ ops = 0 /\ mounted /\ Settled /\ loading = FALSE

LogoutDone == last.op = "logout" /\ last.phase = "done"

\* C6: after a logout whose POST /auth/logout has settled, resolved or
\* rejected, once the queued updates are rendered and the token effect has
\* run, token and user are null, no header is attached and nothing is
\* stored; the promise of logout resolves (to undefined).
C6_Logout ==
    LogoutDone =>
        /\ last.result = Void
        /\ Settled => (token = Null /\ user = Null /\ header = Absent /\ stored = Absent)

C6_Witness ==
    /\ LogoutDone /\ ~last.resp.ok /\ Settled /\ ops > 0
    /\ stored0 \in Tokens /\ restore = "ok" /\ token = Null /\ header = Absent

\* C7: a logout started when a previous logout has completed and settled, and
\* itself completed and settled, leaves user, loading, token, header and the
\* stored token as they were after the first.
C7_LogoutIdempotent ==
    (snap # <<>> /\ LogoutDone /\ Settled) =>
        <<user, loading, token, header, stored>> = snap

C7_Witness == snap # <<>> /\ LogoutDone /\ Settled /\ restore = "ok"

\* The token the session holds once its queued updates are counted
sessionToken == Apply(token, pend.token)

\* C8 (as claimed): whenever the last step of an operation was its completion,
\* the Authorization header is 'Bearer <token>' for a non-empty session token
\* and absent for an empty one.
C8_HeaderAtCompletion ==
    (mounted /\ last.phase = "done") =>
        /\ header = EffectHeader(sessionToken)
        /\ header = EffectHeader(token)

\* C9 (as claimed): in every quiescent state localStorage['token'] is the
\* session token when it is non-empty and absent when it is empty.
C9_StoredMirrorsToken ==
    Quiescent => stored = EffectStored(token)

\* C10 (as claimed): while every resolved login/register body carried a user
\* and a non-empty token, user is non-empty only if token is non-empty.
C10_UserImpliesToken ==
    wellFormed => (Truthy(user) => Truthy(token))
OAuthDone == last.op = "oauth" /\ last.phase = "done"

\* C11 (as claimed): after handleOAuthSuccess(token, profile), once the queued
\* updates are rendered and the token effect has run, token and user are the
\* arguments, the header is 'Bearer <token>' and localStorage holds the token.
C11_OAuthSuccess ==
    (OAuthDone /\ Settled) =>
        /\ token = last.resp.token
        /\ user = last.resp.user
        /\ header = Bearer(last.resp.token)
        /\ stored = last.resp.token

\* The part of C11 about the call itself: handleOAuthSuccess queues the token
\* and the user, leaves loading alone and issues no request.
C11_OAuthFrame ==
    [][ (ops' > ops /\ last'.op = "oauth") =>
            /\ pend' = [pend EXCEPT !.token = Some(last'.resp.token),
                                    !.user = Some(last'.resp.user)]
            /\ UNCHANGED <<user, loading, token, header, stored, inflight, requested>> ]_vars
\* What login does with the session, stated from lines 76-92: the call only
\* issues the request; the continuation queues user and token of a resolved
\* body and returns {success: true, user}, and otherwise queues nothing and
\* returns {success: false, error} with a non-empty error.
AuthContract(k) ==
    /\ inflight'[k] > inflight[k] =>
          /\ UNCHANGED session
          /\ \A j \in Kinds \ {k} : inflight'[j] = inflight[j]
    /\ inflight'[k] < inflight[k] =>
          /\ UNCHANGED <<user, loading, token, effPending, header, stored>>
          /\ \A j \in Kinds \ {k} : inflight'[j] = inflight[j]
          /\ pend'.loading = pend.loading
          /\ last'.result.kind = "object"
          /\ IF last'.resp.ok /\ last'.resp.body
             THEN /\ pend'.user = Some(last'.resp.user)
                  /\ pend'.token = Some(last'.resp.token)
                  /\ last'.result.success
                  /\ last'.result.user = last'.resp.user
             ELSE /\ pend' = pend
                  /\ ~last'.result.success
                  /\ Truthy(last'.result.error)

\* C12: register and login act on the session in the same way: every step of
\* either obeys the one contract above, which fixes the queued updates, the
\* untouched header and storage and the shape of the result from the state
\* and the response alone; they differ in the request issued.
C12_RegisterLikeLogin ==
    [][AuthContract("login") /\ AuthContract("register")]_vars

C12_Witness ==
    /\ last.op = "register" /\ last.phase = "done"
    /\ last.resp.ok /\ last.resp.body /\ Truthy(last.resp.token)
    /\ last.result = Success(last.resp.user)
    /\ Settled /\ token = last.resp.token /\ user = last.resp.user
    /\ header = Bearer(token) /\ stored = token
\* C13 (as claimed): after a failed mount-time check, and while the consumer
\* has invoked nothing, there is no state with loading false in which the
\* rejected token is still the session token, still attached or still stored.
C13_LoadingAfterLogout ==
    (RestoreFailed /\ ops = 0 /\ loading = FALSE) =>
        /\ token # stored0
        /\ header # Bearer(stored0)
        /\ stored # stored0
Issued(k) == inflight'[k] > inflight[k]
Settles(k) == inflight'[k] < inflight[k]

\* C14: the step that issues the request of login, register, logout or
\* checkAuth changes nothing of that operation: committed state, header and
\* storage stay as they are and no update is queued.  Two steps issue a request
\* together with something else: the mount flush runs the token effect before
\* checkAuth, and the continuation of a failed checkAuth queues its own
\* setLoading(false) after starting logout; the logout so started has queued
\* nothing and removed nothing.  Updates of user and token are queued, and the
\* stored token is removed by an operation, only in a step that settles a
\* request (or in handleOAuthSuccess, which has none).
C14_NothingBeforeResolve ==
    [][ /\ (\E k \in Kinds : Issued(k)) =>
              /\ UNCHANGED <<user, loading, token>>
              /\ pend'.user = pend.user /\ pend'.token = pend.token
              /\ pend'.loading # pend.loading => Settles("me")
              /\ mounted => UNCHANGED <<header, stored, effPending>>
              /\ ~mounted => (header' = EffectHeader(token) /\ stored' = EffectStored(token))
        /\ (pend'.user # pend.user /\ pend'.user # None) =>
              ((\E k \in Kinds : Settles(k)) \/ last'.op = "oauth")
        /\ (pend'.token # pend.token /\ pend'.token # None) =>
              ((\E k \in Kinds : Settles(k)) \/ last'.op = "oauth")
        /\ (stored' # stored /\ mounted /\ ~effPending) =>
              (\E k \in Kinds : Settles(k)) ]_vars

C14_Witness ==
    /\ inflight["logout"] = 1 /\ last.op = "logout" /\ last.phase = "start"
    /\ restore = "ok" /\ Settled
    /\ token = stored0 /\ Truthy(user) /\ header = Bearer(stored0) /\ stored = stored0

\* C15 (as claimed): when the mount-time GET /auth/me resolves without a body
\* or with a body that has no user, and the consumer invokes nothing, the
\* session that results once everything has settled is anonymous.
C15_MalformedRestore ==
    (restore \in {"nobody", "nouser"} /\ ops = 0 /\ Quiescent) => Anonymous

\* C16 (as claimed): loading is true for as long as the mount-time
\* GET /auth/me is pending.
C16_LoadingWhilePending ==
    restore = "pending" => loading = TRUE

\* C16 (amended): loading is true before the mount effects run and, while the
\* consumer has invoked nothing, for as long as the mount-time request is
\* pending; while that request is pending only a checkAuth invoked by the
\* consumer queues setLoading(false); with no stored token setLoading(false)
\* is queued by the mount effects themselves; once the mount-time request has
\* settled loading eventually is false; and once false it is never true again.
C16_Loading ==
    /\ [](~mounted => loading = TRUE)
    /\ []((restore = "pending" /\ ops = 0) => (loading = TRUE /\ pend.loading = None))
    /\ [][ (restore = "pending" /\ restore' = "pending" /\ pend'.loading # pend.loading
              /\ pend'.loading # None)
            => (last'.op = "checkAuth" /\ ops' > 0) ]_vars
    /\ []((mounted /\ stored0 = Absent) => (loading = FALSE \/ pend.loading = Some(FALSE)))
    /\ (mounted /\ restore # "pending") ~> (loading = FALSE)
    /\ [][loading = FALSE => loading' = FALSE]_vars

C16_Witness ==
    /\ loading = FALSE /\ restore = "ok" /\ inflight["me"] = 1
    /\ last.op = "checkAuth" /\ last.phase = "start" /\ pend = NoPend

\* C17: constructed with a stored token t, the mount-time GET /auth/me is
\* sent, and it is sent with the Authorization header 'Bearer t', never
\* without a header or with another token; with no stored token no
\* mount-time request is sent.
C17_AttachedBeforeRestore ==
    mounted =>
        /\ stored0 \in Tokens => restoreAuth = Bearer(stored0)
        /\ stored0 = Absent => restoreAuth = Unsent

C17_Witness ==
    /\ stored0 \in Tokens /\ restore = "pending" /\ inflight["me"] = 1
    /\ restoreAuth = Bearer(stored0) /\ header = Bearer(stored0)

\* The consumer's only call so far was a login, a register or a
\* handleOAuthSuccess, and it completed successfully with a token.
AuthDone ==
    /\ ops = 1 /\ last.phase = "done"
    /\ \/ last.op = "oauth"
       \/ /\ last.op \in {"login", "register"}
          /\ last.result.success
          /\ Truthy(last.resp.user) /\ Truthy(last.resp.token)

\* C18 (as claimed): with the consumer's calls serialized, after a successful
\* login, register or handleOAuthSuccess and before any other call of the
\* consumer, no step of the provider queues the removal of the new token or
\* user or removes the stored token; in particular not the settling of the
\* logout that a failed mount-time checkAuth started.
C18_AuthSurvivesBackground ==
    [][ (AuthDone /\ ops' = ops /\ sessionToken = last.resp.token) =>
            /\ sessionToken' = last.resp.token
            /\ Apply(user, pend.user) = last.resp.user
                  => Apply(user', pend'.user) = last.resp.user
            /\ stored = last.resp.token => stored' = last.resp.token ]_vars

\* C19 (as claimed): a login or register whose result is {success: true} has
\* made the session token non-empty: the response carried a token, and the
\* token the session holds or has queued is that token.
C19_SuccessMeansAuthenticated ==
    (/\ last.op \in {"login", "register"} /\ last.phase = "done"
     /\ last.result.kind = "object" /\ last.result.success) =>
        /\ Truthy(last.resp.token)
        /\ Truthy(sessionToken)
====
